---- MODULE Spec2Model ----
(***************************************************************************)
(* Model of travel_time_experiments:                                       *)
(*   ingest_ons_geo.py  get_ons_geo_data, get_ons_geo_paginated            *)
(*   munge_gpd.py       add_linestring_col                                 *)
(* One call of one of the three functions is modelled per behaviour; the   *)
(* function called is chosen in Init (variable call).                      *)
(***************************************************************************)
EXTENDS Integers, Sequences, FiniteSets, TLC

VARIABLES
    call,       \* the function the caller invokes
    pc,         \* "start", "loop" (head of the while loop), "returned", "raised"
    params,     \* the caller's params mapping (mutated in place by the paginated fetch)
    params0,    \* history: the params mapping as it was when the call began
    requests,   \* history: the params sent with each requests.get, in order
    pages,      \* history: the responses received, in order
    more_pages, \* local of get_ons_geo_paginated
    offset,     \* local of get_ons_geo_paginated
    all_gdfs,   \* local of get_ons_geo_paginated
    result,     \* the value returned, None until the call returns
    error,      \* the exception raised, None unless pc = "raised"
    heap,       \* the tables in memory, by reference
    gdf,        \* add_linestring_col: reference of the caller's table
    gdf0,       \* history: the value of the caller's table when the call began
    args,       \* add_linestring_col: the keyword arguments of the call
    out_gdf     \* add_linestring_col: reference of the returned table, None until returned

vars == <<call, pc, params, params0, requests, pages, more_pages, offset,
          all_gdfs, result, error, heap, gdf, gdf0, args, out_gdf>>

fetchVars == <<params, params0, requests, pages, more_pages, offset, all_gdfs>>
enrichVars == <<heap, gdf, gdf0, args, out_gdf>>

None == "None"

\* ---------------------------------------------------------------- bounds

MaxRequests == 4     \* requests one paginated fetch may issue in the model
MaxPageLen == 2      \* records in one page
MaxInitOffset == 1   \* the caller's initial resultOffset
MaxRows == 2         \* rows of the table given to add_linestring_col

\* ------------------------------------------------- dictionaries (JSON objects)

\* A JSON object whose keys may be absent is a set of <<key, value>> pairs.
HasKey(d, k) == \E kv \in d : kv[1] = k
Get(d, k) == (CHOOSE kv \in d : kv[1] = k)[2]

\* ------------------------------------------------------------ the server

Crs == "EPSG:4326"

\* The records of the k-th response, n of them.  A record is named by the
\* response and the position it arrived in, so that order, loss and
\* duplication of records are all visible in the table returned.
Features(k, n) == [i \in 1..n |-> [page |-> k, pos |-> i]]

\* content["properties"]: exceededTransferLimit true, false, or not there.
PropertiesSet ==
    { {<<"exceededTransferLimit", TRUE>>},
      {<<"exceededTransferLimit", FALSE>>},
      {} }

FailureStatus ==
    { [status_code |-> 404, reason |-> "Not Found"],
      [status_code |-> 500, reason |-> "Internal Server Error"] }

\* The body of an error response: not a feature collection, never parsed.
ErrorBody == [text |-> "error page"]

\* What the server may answer to the k-th request.
Responses(k) ==
    { [status_code |-> 200, reason |-> "OK",
       body |-> [features |-> Features(k, n), crs |-> Crs, properties |-> p]] :
         n \in 0..MaxPageLen, p \in PropertiesSet }
    \cup
    { [status_code |-> f.status_code, reason |-> f.reason, body |-> ErrorBody] :
         f \in FailureStatus }

\* resp.ok (requests: no 4xx or 5xx status)
Ok(resp) == ~(400 <= resp.status_code /\ resp.status_code < 600)

\* ---------------------------------------------------------------- tables

\* A fetched table: its crs and its rows, each row with its index label.
FromFeatures(features, crs) ==
    [crs |-> crs,
     rows |-> [i \in 1..Len(features) |-> [index |-> i - 1, rec |-> features[i]]]]

\* pd.concat([a, b]): the rows of a then the rows of b, index labels kept.
PdConcat(a, b) == [crs |-> a.crs, rows |-> a.rows \o b.rows]

\* reset_index(drop=True): index labels 0..n-1, rows as they are.
ResetIndexNoop(t) == t
ResetIndex(t) ==
    [crs |-> t.crs,
     rows |-> [i \in 1..Len(t.rows) |-> [index |-> i - 1, rec |-> t.rows[i].rec]]]

\* ------------------------------------------------------- get_ons_geo_data

RequestExceptionNoStatus(resp) ==
    [type |-> "RequestException", msg |-> <<"HTTP error">>]
RequestException(resp) ==
    [type |-> "RequestException",
     msg |-> <<"HTTP ", ToString(resp.status_code), " : ", resp.reason>>]

KeyError(k) == [type |-> "KeyError", msg |-> <<k>>]

\* The outcome of one get_ons_geo_data call whose request is answered by resp.
GetOnsGeoData(resp) ==
    IF Ok(resp)
    THEN [raised |-> FALSE, content |-> resp.body,
          gdf |-> FromFeatures(resp.body.features, resp.body.crs)]
    ELSE [raised |-> TRUE, error |-> RequestException(resp)]

\* params["resultOffset"] += offset
AdvanceOffsetWrongKey(p, off) ==
    [p EXCEPT !["resultRecordCount"] = @ + off, !["resultOffset"] = @ + off]
AdvanceOffset(p, off) == [p EXCEPT !["resultOffset"] = @ + off]

\* A request that raises inside the loop ends the call: nothing is returned.
PartialOnError(acc) == [pc |-> "returned", result |-> ResetIndex(acc)]
PropagateError(acc) == [pc |-> "raised", result |-> None]

\* The except KeyError branch of the loop.
MissingLimitMeansMore == TRUE
MissingLimit == FALSE

\* The caller's params: a resultOffset entry (the paginated fetch needs one)
\* and entries the fetch has no business with.
ParamsSet ==
    [resultOffset : 0..MaxInitOffset, resultRecordCount : {2}, where : {"1=1"}]

InitFetch(c) ==
    /\ call = c
    /\ pc = "start"
    /\ params \in ParamsSet
    /\ params0 = params
    /\ requests = <<>>
    /\ pages = <<>>
    /\ more_pages = None
    /\ offset = None
    /\ all_gdfs = None
    /\ result = None
    /\ error = None
    /\ heap = <<>>
    /\ gdf = None
    /\ gdf0 = None
    /\ args = None
    /\ out_gdf = None

\* get_ons_geo_data(endpoint, params), called on its own.
CallGetOnsGeoData ==
    /\ call = "get_ons_geo_data"
    /\ pc = "start"
    /\ \E resp \in Responses(1) :
         LET r == GetOnsGeoData(resp) IN
         /\ requests' = Append(requests, params)
         /\ pages' = Append(pages, resp)
         /\ IF r.raised
            THEN /\ pc' = "raised"
                 /\ error' = r.error
                 /\ result' = None
            ELSE /\ pc' = "returned"
                 /\ error' = None
                 /\ result' = <<r.content, r.gdf>>
    /\ UNCHANGED <<call, params, params0, more_pages, offset, all_gdfs>>
    /\ UNCHANGED enrichVars

\* get_ons_geo_paginated, lines 21-24: the first request.
FirstPage ==
    /\ call = "get_ons_geo_paginated"
    /\ pc = "start"
    /\ \E resp \in Responses(1) :
         LET r == GetOnsGeoData(resp) IN
         /\ requests' = Append(requests, params)
         /\ pages' = Append(pages, resp)
         /\ IF r.raised
            THEN /\ pc' = "raised"
                 /\ error' = r.error
                 /\ UNCHANGED <<more_pages, offset, all_gdfs>>
            ELSE IF ~HasKey(r.content.properties, "exceededTransferLimit")
            THEN /\ pc' = "raised"
                 /\ error' = KeyError("exceededTransferLimit")
                 /\ UNCHANGED <<more_pages, offset, all_gdfs>>
            ELSE /\ pc' = "loop"
                 /\ error' = None
                 /\ more_pages' = Get(r.content.properties, "exceededTransferLimit")
                 /\ offset' = Len(r.gdf.rows)
                 /\ all_gdfs' = r.gdf
    /\ UNCHANGED <<call, params, params0, result>>
    /\ UNCHANGED enrichVars

\* get_ons_geo_paginated, lines 25-33: one iteration of the while loop.
NextPage ==
    /\ call = "get_ons_geo_paginated"
    /\ pc = "loop"
    /\ more_pages
    /\ Len(requests) < MaxRequests
    /\ params' = AdvanceOffset(params, offset)
    /\ \E resp \in Responses(Len(requests) + 1) :
         LET r == GetOnsGeoData(resp) IN
         /\ requests' = Append(requests, params')
         /\ pages' = Append(pages, resp)
         /\ IF r.raised
            THEN /\ pc' = PropagateError(all_gdfs).pc
                 /\ result' = PropagateError(all_gdfs).result
                 /\ error' = r.error
                 /\ UNCHANGED <<more_pages, all_gdfs>>
            ELSE /\ pc' = "loop"
                 /\ all_gdfs' = PdConcat(all_gdfs, r.gdf)
                 /\ more_pages' =
                      IF HasKey(r.content.properties, "exceededTransferLimit")
                      THEN Get(r.content.properties, "exceededTransferLimit")
                      ELSE MissingLimit
                 /\ UNCHANGED <<result, error>>
    /\ UNCHANGED <<call, params0, offset>>
    /\ UNCHANGED enrichVars

\* get_ons_geo_paginated, lines 34-35: the loop is left, the table returned.
Return ==
    /\ call = "get_ons_geo_paginated"
    /\ pc = "loop"
    /\ ~more_pages
    /\ pc' = "returned"
    /\ result' = ResetIndex(all_gdfs)
    /\ UNCHANGED <<call, error>>
    /\ UNCHANGED fetchVars
    /\ UNCHANGED enrichVars

\* ----------------------------------------------------- add_linestring_col

\* Cell values.  A point is stored longitude (x) first, latitude (y) second.
Point(x, y) == [kind |-> "Point", x |-> x, y |-> y]
Str(v) == [kind |-> "str", v |-> v]

\* LineString([a, b]): the path through the coordinates of a, then of b.
LineString(a, b) ==
    [kind |-> "LineString", coords |-> <<<<a.x, a.y>>, <<b.x, b.y>>>>]

\* (row[col].y, row[col].x): the point as the distance function wants it.
LonLat(p) == <<p.x, p.y>>
LatLon(p) == <<p.y, p.x>>

\* haversine(p1, p2, unit=Unit.METERS) of the haversine package, p1 and p2
\* (latitude, longitude) pairs: the great-circle distance, kept as the
\* application it is.
Haversine(p1, p2) ==
    [kind |-> "float", fn |-> "haversine", p1 |-> p1, p2 |-> p2, unit |-> "m"]

\* .x and .y exist on points only.
HasXY(v) == v.kind = "Point"

\* df[name] = values: the column is replaced in place, or added last.
SetCol(t, name, values) ==
    [index |-> t.index,
     columns |-> IF \E i \in 1..Len(t.columns) : t.columns[i] = name
                 THEN t.columns
                 ELSE Append(t.columns, name),
     data |-> [c \in DOMAIN t.data \cup {name} |->
                 IF c = name THEN values ELSE t.data[c]]]

NRows(t) == Len(t.index)

\* gdf.copy(deep=True): the reference of the table the function works on.
AliasRef(h, ref) == ref
OutRef(h, ref) == Len(h) + 1

\* The points of the tables given to add_linestring_col, (lon, lat).
Points == { Point(0, 0), Point(0, 1), Point(2, 60) }

\* The caller's tables: columns id, geometry, snapped_geometry, one row at
\* least, a point in every geometry cell.
Tables ==
    { [index |-> [i \in 1..n |-> i - 1],
       columns |-> <<"id", "geometry", "snapped_geometry">>,
       data |-> [c \in {"id", "geometry", "snapped_geometry"} |->
                   [i \in 1..n |->
                      IF c = "id" THEN Str(i)
                      ELSE IF c = "geometry" THEN g[i] ELSE sn[i]]]] :
        n \in 1..MaxRows, g \in [1..MaxRows -> Points], sn \in [1..MaxRows -> Points] }

ArgsSet ==
    { [new_colnm |-> nc, geom_col |-> gs[1], snapped_col |-> gs[2],
       calc_haversine |-> ch, haversine_colnm |-> hc] :
        nc \in {"lines", "geometry", "snap_dist_m"},
        gs \in { <<"geometry", "snapped_geometry">>,
                 <<"snapped_geometry", "geometry">> },
        ch \in BOOLEAN,
        hc \in {"snap_dist_m", "lines"} }

InitEnrich ==
    /\ call = "add_linestring_col"
    /\ pc = "start"
    /\ params = None
    /\ params0 = None
    /\ requests = <<>>
    /\ pages = <<>>
    /\ more_pages = None
    /\ offset = None
    /\ all_gdfs = None
    /\ result = None
    /\ error = None
    /\ gdf0 \in Tables
    /\ heap = <<gdf0>>
    /\ gdf = 1
    /\ args \in ArgsSet
    /\ out_gdf = None

\* add_linestring_col(gdf, new_colnm, geom_col, snapped_col, calc_haversine,
\* haversine_colnm): the whole call.
AddLinestringCol ==
    /\ call = "add_linestring_col"
    /\ pc = "start"
    /\ LET out == OutRef(heap, gdf)
           h1 == Append(heap, heap[gdf])
           t1 == h1[out]
           lines == [i \in 1..NRows(t1) |->
                       LineString(t1.data[args.geom_col][i],
                                  t1.data[args.snapped_col][i])]
           h2 == [h1 EXCEPT ![out] = SetCol(t1, args.new_colnm, lines)]
           t2 == h2[out]
           dists == [i \in 1..NRows(t2) |->
                       Haversine(LatLon(t2.data[args.geom_col][i]),
                                 LatLon(t2.data[args.snapped_col][i]))]
           h3 == [h2 EXCEPT ![out] = SetCol(t2, args.haversine_colnm, dists)]
       IN
       IF ~args.calc_haversine
       THEN /\ heap' = h2
            /\ pc' = "returned"
            /\ out_gdf' = out
            /\ error' = None
       ELSE IF \E i \in 1..NRows(t2), c \in {args.geom_col, args.snapped_col} :
                  ~HasXY(t2.data[c][i])
       THEN /\ heap' = h2
            /\ pc' = "raised"
            /\ out_gdf' = None
            /\ error' = [type |-> "AttributeError", msg |-> <<"y">>]
       ELSE /\ heap' = h3
            /\ pc' = "returned"
            /\ out_gdf' = out
            /\ error' = None
    /\ UNCHANGED <<call, result, gdf, gdf0, args>>
    /\ UNCHANGED fetchVars

Init ==
    \/ InitFetch("get_ons_geo_data")
    \/ InitFetch("get_ons_geo_paginated")
    \/ InitEnrich

Next == CallGetOnsGeoData \/ FirstPage \/ NextPage \/ Return \/ AddLinestringCol

Spec == Init /\ [][Next]_vars

\* ------------------------------------------------- vocabulary of the claims

Paginated == call = "get_ons_geo_paginated"

\* A 2xx answer.
Success(resp) == resp.status_code \in 200..299

\* Page k arrived with success and declares exceededTransferLimit = v.
Declares(k, v) ==
    /\ Success(pages[k])
    /\ <<"exceededTransferLimit", v>> \in pages[k].body.properties

\* Page k arrived with success and has no exceededTransferLimit at all.
Omits(k) ==
    /\ Success(pages[k])
    /\ \A kv \in pages[k].body.properties : kv[1] # "exceededTransferLimit"

RECURSIVE RecordsUpTo(_)
RecordsUpTo(k) ==
    IF k = 0 THEN <<>> ELSE RecordsUpTo(k - 1) \o pages[k].body.features

RECURSIVE CountUpTo(_)
CountUpTo(k) ==
    IF k = 0 THEN 0 ELSE CountUpTo(k - 1) + Len(pages[k].body.features)

\* The table the paginated fetch is to return after n pages.
ExpectedRows(n) ==
    [i \in 1..CountUpTo(n) |-> [index |-> i - 1, rec |-> RecordsUpTo(n)[i]]]

\* ------------------------------------------------------------------- C1

AbsentOnFinalPage ==
    /\ Paginated
    /\ Len(pages) >= 1
    /\ \A k \in 1..(Len(pages) - 1) : Declares(k, TRUE)
    /\ Omits(Len(pages))

\* C1: when pages 1..N-1 declare exceededTransferLimit true and page N has
\* no such field (N >= 1, so also when page N is the first page), the
\* paginated fetch raises nothing, issues exactly N requests and returns the
\* records of the N pages, concatenated.
C1_AbsentFieldEndsPagination ==
    AbsentOnFinalPage =>
        /\ pc # "raised"
        /\ error = None
        /\ Len(requests) = Len(pages)
        /\ ~ENABLED NextPage
        /\ pc = "returned" => result.rows = ExpectedRows(Len(pages))

\* ------------------------------------------------------------------- C2

\* C2: the resultOffset sent with request k (k >= 2) is the resultOffset sent
\* with request k-1 plus the number of records page k-1 returned.
C2_OffsetAdvancesByPreviousPage ==
    Paginated =>
        \A k \in 2..Len(requests) :
            requests[k].resultOffset =
                requests[k - 1].resultOffset + Len(pages[k - 1].body.features)

\* ------------------------------------------------------------------- C3

TrueThenFalse ==
    /\ Paginated
    /\ Len(pages) >= 1
    /\ \A k \in 1..(Len(pages) - 1) : Declares(k, TRUE)
    /\ Declares(Len(pages), FALSE)

\* C3: when pages 1..N-1 declare exceededTransferLimit true and page N
\* declares it false, the paginated fetch issues exactly N requests and
\* returns the records of page 1, then page 2, ..., then page N, each page in
\* its own order, as many rows as the pages have records, indexed 0..total-1.
C3_ConcatenatesPagesInOrder ==
    TrueThenFalse =>
        /\ pc \in {"loop", "returned"}
        /\ Len(requests) = Len(pages)
        /\ ~ENABLED NextPage
        /\ pc = "loop" => ENABLED Return
        /\ pc = "returned" =>
             /\ result.rows = ExpectedRows(Len(pages))
             /\ Len(result.rows) = CountUpTo(Len(pages))
             /\ \A i \in 1..Len(result.rows) : result.rows[i].index = i - 1

C3_Witness ==
    /\ TrueThenFalse
    /\ pc = "returned"
    /\ Len(pages) >= 3
    /\ Len(pages[1].body.features) # Len(pages[2].body.features)
    /\ Len(result.rows) >= 4

\* ------------------------------------------------------------------- C4

\* C4: one call of get_ons_geo_data issues exactly one request; on a
\* non-success status it raises an error carrying the status code and the
\* reason phrase, retries nothing and returns nothing; on success it returns
\* the parsed body together with the table of the body's features.
C4_SinglePageFetch ==
    (call = "get_ons_geo_data" /\ pc # "start") =>
        /\ Len(requests) = 1
        /\ Len(pages) = 1
        /\ requests[1] = params0
        /\ ~ENABLED Next
        /\ Success(pages[1]) =>
             /\ pc = "returned"
             /\ error = None
             /\ result[1] = pages[1].body
             /\ result[2].crs = pages[1].body.crs
             /\ Len(result[2].rows) = Len(pages[1].body.features)
             /\ \A i \in 1..Len(result[2].rows) :
                  /\ result[2].rows[i].rec = pages[1].body.features[i]
                  /\ result[2].rows[i].index = i - 1
        /\ ~Success(pages[1]) =>
             /\ pc = "raised"
             /\ result = None
             /\ error.type = "RequestException"
             /\ \E i, j \in 1..Len(error.msg) :
                  /\ error.msg[i] = ToString(pages[1].status_code)
                  /\ error.msg[j] = pages[1].reason

C4_Witness ==
    /\ call = "get_ons_geo_data"
    /\ pc = "raised"
    /\ pages[1].status_code = 404

\* ------------------------------------------------------------------- C5

\* C5: when a request of the paginated fetch, the first or a later one, is
\* answered with a non-success status, the fetch fails with that error,
\* issues no further request and returns no table: the records of the pages
\* already fetched are not returned.
C5_FailureIsFatal ==
    Paginated =>
        \A k \in 1..Len(pages) :
            ~Success(pages[k]) =>
                /\ k = Len(pages)
                /\ Len(requests) = Len(pages)
                /\ pc = "raised"
                /\ result = None
                /\ error = [type |-> "RequestException",
                            msg |-> <<"HTTP ", ToString(pages[k].status_code), " : ",
                                      pages[k].reason>>]
                /\ ~ENABLED Next

C5_Witness ==
    /\ Paginated
    /\ pc = "raised"
    /\ Len(pages) >= 3
    /\ ~Success(pages[Len(pages)])
    /\ Len(all_gdfs.rows) >= 2

\* ------------------------------------------------------------------- C6

Enrich == call = "add_linestring_col"

Columns(t) == { t.columns[i] : i \in 1..Len(t.columns) }

\* The columns the call writes.
Written ==
    {args.new_colnm} \cup
    (IF args.calc_haversine THEN {args.haversine_colnm} ELSE {})

\* C6: add_linestring_col leaves the table it is given as it was (columns,
\* rows, values), with or without the distance and whatever the names of the
\* output columns; what it adds is in the returned table only.
C6_InputNotMutated ==
    (Enrich /\ pc # "start") =>
        /\ heap[gdf] = gdf0
        /\ pc = "returned" =>
             /\ out_gdf # gdf
             /\ Written \subseteq Columns(heap[out_gdf])
             /\ \A c \in Written \ Columns(gdf0) : c \notin Columns(heap[gdf])

C6_Witness ==
    /\ Enrich
    /\ pc = "returned"
    /\ args.new_colnm = "geometry"
    /\ NRows(gdf0) = 2
    /\ heap[out_gdf].data["geometry"] # gdf0.data["geometry"]

\* ------------------------------------------------------------------- C7

\* Row i of the returned table holds, under new_colnm, the two-point path
\* from the source point of row i of the input to its snapped point.
LineOfRow(i) ==
    heap[out_gdf].data[args.new_colnm][i] =
        [kind |-> "LineString",
         coords |-> << <<gdf0.data[args.geom_col][i].x,
                         gdf0.data[args.geom_col][i].y>>,
                       <<gdf0.data[args.snapped_col][i].x,
                         gdf0.data[args.snapped_col][i].y>> >>]

\* The returned table has the rows of the input, in the same order.
SameRows ==
    /\ heap[out_gdf].index = gdf0.index
    /\ \A c \in Columns(gdf0) \ Written : heap[out_gdf].data[c] = gdf0.data[c]

\* C7: for every row, the returned table's line column is the path
\* [(x1,y1), (x2,y2)], source first and snapped second, and the rows are
\* those of the input in the same order.
C7_LineOfEveryRow ==
    (Enrich /\ pc = "returned") =>
        /\ SameRows
        /\ \A i \in 1..NRows(gdf0) : LineOfRow(i)

\* ------------------------------------------------------------------- C8

IsDistance(v) == v.kind = "float"

\* C8: the returned table has the distance column exactly when
\* calc_haversine is set, and then row i holds the great-circle distance of
\* (y1, x1) and (y2, x2), latitude first, in metres, (x1, y1) and (x2, y2)
\* the source and snapped points of row i as stored, longitude first.
C8_DistanceIffRequested ==
    (Enrich /\ pc = "returned") =>
        LET out == heap[out_gdf] IN
        /\ args.calc_haversine =>
             /\ Columns(out) = Columns(gdf0) \cup {args.new_colnm, args.haversine_colnm}
             /\ \A i \in 1..NRows(gdf0) :
                  out.data[args.haversine_colnm][i] =
                      [kind |-> "float", fn |-> "haversine", unit |-> "m",
                       p1 |-> <<gdf0.data[args.geom_col][i].y,
                                gdf0.data[args.geom_col][i].x>>,
                       p2 |-> <<gdf0.data[args.snapped_col][i].y,
                                gdf0.data[args.snapped_col][i].x>>]
        /\ ~args.calc_haversine =>
             /\ Columns(out) = Columns(gdf0) \cup {args.new_colnm}
             /\ \A c \in Columns(out), i \in 1..NRows(out) :
                  ~IsDistance(out.data[c][i])

\* Source (0,0) and snapped (0,1), longitude first: the distance of latitude
\* 0, longitude 0 and latitude 1, longitude 0.
C8_Witness ==
    /\ Enrich
    /\ pc = "returned"
    /\ args.calc_haversine
    /\ gdf0.data[args.geom_col][1] = [kind |-> "Point", x |-> 0, y |-> 0]
    /\ gdf0.data[args.snapped_col][1] = [kind |-> "Point", x |-> 0, y |-> 1]
    /\ heap[out_gdf].data[args.haversine_colnm][1].p1 = <<0, 0>>
    /\ heap[out_gdf].data[args.haversine_colnm][1].p2 = <<1, 0>>

\* ------------------------------------------------------------------- C9

LastDeclaresTrue == Len(pages) >= 1 /\ Declares(Len(pages), TRUE)

\* C9: the paginated fetch issues a further request exactly when the response
\* received last declares exceededTransferLimit true: while it does, the
\* fetch neither returns nor stops (up to the model's MaxRequests), and as
\* soon as it does not, no further request is issued and the call ends.
C9_ContinuesExactlyWhileLimitExceeded ==
    (Paginated /\ Len(pages) >= 1) =>
        /\ LastDeclaresTrue =>
             /\ pc = "loop"
             /\ ~ENABLED Return
             /\ Len(requests) < MaxRequests => ENABLED NextPage
        /\ ~LastDeclaresTrue =>
             /\ ~ENABLED NextPage
             /\ \/ pc \in {"returned", "raised"}
                \/ pc = "loop" /\ ENABLED Return

C9_Witness ==
    /\ Paginated
    /\ Len(requests) = MaxRequests
    /\ \A k \in 1..Len(pages) : Declares(k, TRUE)
    /\ pc = "loop"

\* ------------------------------------------------------------------ C10

\* C10: the paginated fetch changes the caller's params only in resultOffset
\* and only as it issues a request after the first: every other entry stays
\* as it was, params is untouched while one page has been fetched, and the
\* params left behind are those of the last request sent, never rolled back,
\* on return as on failure.
C10_OnlyResultOffsetMutated ==
    Paginated =>
        /\ DOMAIN params = DOMAIN params0
        /\ \A key \in DOMAIN params0 \ {"resultOffset"} :
             /\ params[key] = params0[key]
             /\ \A k \in 1..Len(requests) : requests[k][key] = params0[key]
        /\ Len(requests) <= 1 => params = params0
        /\ Len(requests) >= 1 =>
             /\ requests[1] = params0
             /\ params = requests[Len(requests)]
        /\ \A k \in 2..Len(requests) :
             requests[k].resultOffset >= requests[k - 1].resultOffset

C10_Witness ==
    /\ Paginated
    /\ pc = "raised"
    /\ Len(requests) >= 3
    /\ params.resultOffset > params0.resultOffset
    /\ params = requests[Len(requests)]

====
